---- MODULE Spec2Model ----
(***************************************************************************)
(* Model of benchmarking/AmelieBenchmarkRunner.py: the batch retrieval     *)
(* loop retrieveAmelieResults, the sorter retrieveSortedAmelieList and the *)
(* writer writeLovdResultsToFile.                                          *)
(*                                                                         *)
(* Time is counted in ticks of half a second.  Floating point scores are   *)
(* counted in tenths.                                                      *)
(***************************************************************************)
EXTENDS Integers, Sequences, FiniteSets, TLC

VARIABLES
    pc,                \* position of the single thread in retrieveAmelieResults
    now,               \* the wall clock, time()
    universe,          \* list(hgncs): the gene universe in iteration order
    hgncs,             \* the gene chunks (hgncs after line 93)
    requestTime,       \* RateState (lines 96, 130)
    lovd,              \* index of the current sample in lovdPhenotypes.keys()
    chunkIdx,          \* index i+1 of the current chunk (line 114)
    lovdAmelieOutput,  \* the per-sample dict: [keys: insertion order, val: gene -> list]
    files,             \* the output directory: sample -> NoFile or File(lines)
    sortedGenes,       \* writer: the list returned by retrieveSortedAmelieList
    geneIdx,           \* writer: index of the next gene line to write
    inFlight,          \* number of remote calls in flight
    chunkSize,         \* second argument of chunkList (line 93)
    response,          \* status of the most recent response, NoResponse when none
    exception,         \* the exception raised at lines 123-125, NoException when none
    respIdx,           \* number of entries of response.json() taken so far (line 133)
    gene,              \* the entry of response.json() being digested, NoGene when none
    calls,             \* history: the remote calls issued, in order
    completedAt,       \* history: clock when the most recent call completed
    preexisting,       \* history: the output directory when the job started
    reached,           \* history: per sample, what the orchestrator did on reaching it
    merged,            \* history: per sample, the number of chunk responses merged
    evidenced,         \* history: genes the current sample got a non-empty list for
    results,           \* history: per sample, the dict handed to the writer
    digested,          \* history: the entry line 145 digested last, and the dict before it
    received,          \* history: the entries with results the current sample got
    written,           \* history: per sample, the calls of writeLovdResultsToFile
    run,               \* history: the number of the run of the job on this directory
    leftBy             \* history: per sample, the file as an earlier run left it

vars == <<pc, now, universe, hgncs, requestTime, lovd, chunkIdx, lovdAmelieOutput,
          files, sortedGenes, geneIdx, inFlight, response, respIdx, gene, calls,
          completedAt, preexisting, reached, merged, results, chunkSize, exception,
          evidenced, digested, received, written, run, leftBy>>

----------------------------------------------------------------------------
(* Bounds *)

NumSamples == 2
MaxRespLen == 2
\* largest chunk size the chunker is tried with
MaxChunkSize == 4
\* most ticks by which the clock leads the fastest schedule of the calls
MaxTicks == 2
\* most runs of the job on one output directory
MaxRuns == 2

(* Program constants *)

\* chunk size of line 93 (1000), scaled down
ChunkSize == 2
\* first argument of waitTillElapsed at line 118: 1 second, in ticks
MinInterval == 2

----------------------------------------------------------------------------
(* Data *)

Samples == 1..NumSamples

GeneList == <<"BRCA1", "TP53", "EGFR">>

Genes == {GeneList[i] : i \in 1..Len(GeneList)}

\* lovdPhenotypes.get(lovd): the phenotype IDs of a sample
Phenotypes(s) == IF s % 2 = 1 THEN <<"HP:0000001", "HP:0000002">> ELSE <<"HP:0000003">>

\* a path of the output directory: no file, or a file with its lines
NoFile == [exists |-> FALSE, lines |-> <<>>]

File(lines) == [exists |-> TRUE, lines |-> lines]

\* evidence lists as the API returns them: [score as string, pubmed ID];
\* the highest score of the second list is not its first
NoEvidence == <<>>

EvidenceA == << <<"5.0", "pm2">>, <<"9.5", "pm3">> >>

EvidenceB == << <<"7", "pm1">> >>

EvLists == {NoEvidence, EvidenceA, EvidenceB}

\* a list whose second score is no number
EvidenceBad == << <<"7", "pm1">>, <<"n/a", "pm4">> >>

\* the gene entries the remote service answers with: a gene without results,
\* a gene with either list, a second gene with the list the first can have,
\* and that gene with a score that is no number
Entries ==
    { <<"BRCA1", NoEvidence>>,
      <<"BRCA1", EvidenceA>>,
      <<"BRCA1", EvidenceB>>,
      <<"TP53", EvidenceB>>,
      <<"TP53", EvidenceBad>> }

RECURSIVE SeqsUpTo(_, _)
SeqsUpTo(S, n) ==
    IF n = 0 THEN {<<>>}
    ELSE LET shorter == SeqsUpTo(S, n - 1)
         IN  shorter \cup {Append(q, x) : q \in {r \in shorter : Len(r) = n - 1}, x \in S}

\* bodies response.json() can return
Responses == SeqsUpTo(Entries, MaxRespLen)

\* HTTP statuses and transport failures of the remote call
Statuses == {200, 304, 404, 500}

NoResponse == 0

NoGene == <<"", <<>>>>

NoException == "none"

\* exceptions post can raise: the last one is no ConnectionError and no ReadTimeout
Failures == {"ConnectionError", "ReadTimeout", "ChunkedEncodingError"}

\* the strings float() takes for a number
IsFloat(s) == s \in {"9.5", "5.0", "7"}

\* float(): the score, in tenths
ParseFloat(s) ==
    CASE s = "9.5" -> 95
      [] s = "5.0" -> 50
      [] s = "7"   -> 70

\* str() of a float, in tenths
FormatFloat(x) ==
    CASE x = 95 -> "9.5"
      [] x = 50 -> "5.0"
      [] x = 70 -> "7.0"

EmptyDict == [keys |-> <<>>, val |-> [k \in {} |-> <<>>]]

\* no entry has been digested since the response came in
NoDigest == [entry |-> NoGene, before |-> EmptyDict]

----------------------------------------------------------------------------
(* Chunker (BenchmarkGenerics.chunkList) *)

RECURSIVE chunkList(_, _)
chunkList(list, size) ==
    IF Len(list) = 0 THEN <<>>
    ELSE IF Len(list) <= size THEN <<list>>
    ELSE <<SubSeq(list, 1, size)>> \o chunkList(SubSeq(list, size + 1, Len(list)), size)

\* with a fault: the chunker is called with a size one too large
GeneChunks_OffByOne(list, size) == chunkList(list, size + 1)

\* line 93 with the chunk size as a parameter
GeneChunks(list, size) == chunkList(list, size)

(* Rate limiter (BenchmarkGenerics.waitTillElapsed): the time slept *)

waitTillElapsed(minInterval, elapsed) ==
    IF elapsed >= minInterval THEN 0 ELSE minInterval - elapsed

----------------------------------------------------------------------------
(* Result accumulator: lines 133-145 *)

Range(q) == {q[i] : i \in 1..Len(q)}

\* with a fault: the list of a gene that is a key already is extended
DictSet_Extend(d, g, v) ==
    [keys |-> IF g \in Range(d.keys) THEN d.keys ELSE Append(d.keys, g),
     val  |-> [k \in (DOMAIN d.val) \cup {g} |->
                 IF k # g THEN d.val[k]
                 ELSE IF g \in DOMAIN d.val THEN d.val[g] \o v ELSE v]]

\* lovdAmelieOutput[geneSymbol] = genePubmedScores (line 145)
DictSet(d, g, v) ==
    [keys |-> IF g \in Range(d.keys) THEN d.keys ELSE Append(d.keys, g),
     val  |-> [k \in (DOMAIN d.val) \cup {g} |-> IF k = g THEN v ELSE d.val[k]]]

\* lines 135-141: genePubmedScores of one gene entry
GenePubmedScores(raw) ==
    [i \in 1..Len(raw) |-> <<raw[i][2], ParseFloat(raw[i][1])>>]

\* line 139: float() raises ValueError for a score of the entry
RaisesValueError(raw) == \E i \in 1..Len(raw) : ~IsFloat(raw[i][1])

\* with a fault: the ValueError is swallowed and the next entry is taken
AfterValueError_Skip == "digest"

\* line 139 is in no try block: the ValueError ends the job uncaught
AfterValueError == "crashed"

\* with a fault: the gene is stored also when it has no results
DigestGene_Always(d, entry) == DictSet(d, entry[1], GenePubmedScores(entry[2]))

\* with a fault: a gene without results is taken out of the dict
DigestGene_Drop(d, entry) ==
    IF Len(entry[2]) > 0
    THEN DictSet(d, entry[1], GenePubmedScores(entry[2]))
    ELSE [keys |-> SelectSeq(d.keys, LAMBDA k : k # entry[1]),
          val  |-> [k \in (DOMAIN d.val) \ {entry[1]} |-> d.val[k]]]

\* lines 134-145: one gene of the response
DigestGene(d, entry) ==
    LET geneSymbol == entry[1]
        genePubmedScores == GenePubmedScores(entry[2])
    IN  IF Len(genePubmedScores) > 0
        THEN DictSet(d, geneSymbol, genePubmedScores)
        ELSE d

----------------------------------------------------------------------------
(* Result writer: lines 151-186 *)

RECURSIVE MaxScore(_)
MaxScore(list) ==
    IF Len(list) = 1 THEN list[1][2]
    ELSE LET m == MaxScore(Tail(list))
         IN  IF list[1][2] >= m THEN list[1][2] ELSE m

\* with a fault: the genes are sorted by their highest score
SortKey_Max(d, k) == MaxScore(d.val[k])

\* the sort key of line 158: the score of the first stored entry
SortKey(d, k) == d.val[k][1][2]

\* stable insertion of k into a list sorted by descending key
RECURSIVE InsertSorted(_, _, _)
InsertSorted(d, sorted, k) ==
    IF sorted = <<>> THEN <<k>>
    ELSE IF SortKey(d, Head(sorted)) >= SortKey(d, k)
         THEN <<Head(sorted)>> \o InsertSorted(d, Tail(sorted), k)
         ELSE <<k>> \o sorted

RECURSIVE SortFrom(_, _, _)
SortFrom(d, sorted, rest) ==
    IF rest = <<>> THEN sorted
    ELSE SortFrom(d, InsertSorted(d, sorted, Head(rest)), Tail(rest))

\* line 158: sorted(lovdAmelieOutput, key=..., reverse=True), a stable sort
retrieveSortedAmelieList(d) == SortFrom(d, <<>>, d.keys)

HeaderLine == <<"gene", "\t", "scores", "\n">>

\* with a fault: the score is written before the pubmed ID
RECURSIVE ScoreTokens_Swapped(_, _)
ScoreTokens_Swapped(list, i) ==
    IF i > Len(list) THEN <<>>
    ELSE (IF i > 1 THEN <<",">> ELSE <<>>)
         \o <<FormatFloat(list[i][2]), ":", list[i][1]>>
         \o ScoreTokens_Swapped(list, i + 1)

\* lines 178-181: the scores of one gene, separated by commas
RECURSIVE ScoreTokens(_, _)
ScoreTokens(list, i) ==
    IF i > Len(list) THEN <<>>
    ELSE (IF i > 1 THEN <<",">> ELSE <<>>)
         \o <<list[i][1], ":", FormatFloat(list[i][2])>>
         \o ScoreTokens(list, i + 1)

\* lines 177-182: the line of one gene
GeneLine(d, g) == <<g, "\t">> \o ScoreTokens(d.val[g], 1) \o <<"\n">>

\* the whole file of a dict, as writeLovdResultsToFile leaves it
RECURSIVE GeneLines(_, _)
GeneLines(d, genes) ==
    IF genes = <<>> THEN <<>>
    ELSE <<GeneLine(d, Head(genes))>> \o GeneLines(d, Tail(genes))

FileOf(d) == <<HeaderLine>> \o GeneLines(d, retrieveSortedAmelieList(d))

----------------------------------------------------------------------------
(* The job: retrieveAmelieResults, lines 82-148 *)

\* files a previous run can have left: an empty file, and a file that ends
\* within the header
PreContents == {<<>>, << <<"gene", "\t">> >>}

\* the clock when the job starts: at the epoch, half a second after it
StartTimes == {0, 1}

\* the gene universes of a job: none, or all genes
Universes == {<<>>, GeneList}

WriterPcs == {"write_header", "write_genes"}

\* with a fault: only a file that ends with a newline counts as the file of
\* the sample
isfile_Complete(s) ==
    /\ files[s].exists
    /\ files[s].lines # <<>>
    /\ LET last == files[s].lines[Len(files[s].lines)] IN last[Len(last)] = "\n"

\* with a fault: an empty file does not count as the file of the sample
isfile_NonEmpty(s) == files[s].exists /\ files[s].lines # <<>>

\* with a fault: the existence check never finds the file
isfile_Never(s) == FALSE

\* isfile(outFile), line 104
isfile(s) == files[s].exists

Init ==
    /\ pc = "start"
    /\ now \in StartTimes
    /\ universe \in Universes
    /\ hgncs = <<>>
    /\ requestTime = 0
    /\ lovd = 1
    /\ chunkIdx = 1
    /\ lovdAmelieOutput = EmptyDict
    /\ preexisting \in [Samples -> {NoFile} \cup {File(c) : c \in PreContents}]
    /\ files = preexisting
    /\ sortedGenes = <<>>
    /\ geneIdx = 1
    /\ inFlight = 0
    /\ chunkSize = ChunkSize
    /\ response = NoResponse
    /\ exception = NoException
    /\ evidenced = {}
    /\ respIdx = 0
    /\ gene = NoGene
    /\ calls = <<>>
    /\ completedAt = 0
    /\ reached = [s \in Samples |-> "no"]
    /\ merged = [s \in Samples |-> 0]
    /\ results = [s \in Samples |-> EmptyDict]
    /\ digested = NoDigest
    /\ received = {}
    /\ written = [s \in Samples |-> 0]
    /\ run = 1
    /\ leftBy = [s \in Samples |-> NoFile]

\* line 96: the seed of requestTime
SeedRequestTime == -now

\* lines 93-96
Begin ==
    /\ pc = "start"
    /\ hgncs' = GeneChunks(universe, chunkSize)
    /\ requestTime' = SeedRequestTime
    /\ pc' = "for_lovd"
    /\ UNCHANGED <<now, universe, lovd, chunkIdx, lovdAmelieOutput, files, sortedGenes,
                   geneIdx, inFlight, response, calls, completedAt, preexisting, reached,
                   merged, results, respIdx, gene, chunkSize, exception, evidenced,
                   digested, received, written, run, leftBy>>

\* lines 99-106: the output file exists, the sample is skipped
SkipLovd ==
    /\ pc = "for_lovd"
    /\ lovd <= NumSamples
    /\ isfile(lovd)
    /\ lovd' = lovd + 1
    /\ reached' = [reached EXCEPT ![lovd] = "skipped"]
    /\ UNCHANGED <<pc, now, universe, hgncs, requestTime, chunkIdx, lovdAmelieOutput,
                   files, sortedGenes, geneIdx, inFlight, response, calls, completedAt,
                   preexisting, merged, results, respIdx, gene, chunkSize, exception,
                   evidenced,
                   digested, received, written, run, leftBy>>

\* with a fault: the dict of the sample before is kept
FreshOutput_Kept == lovdAmelieOutput

\* line 111: lovdAmelieOutput = {}
FreshOutput == EmptyDict

\* lines 99-111: the sample is processed, starting from an empty dict
StartLovd ==
    /\ pc = "for_lovd"
    /\ lovd <= NumSamples
    /\ ~isfile(lovd)
    /\ lovdAmelieOutput' = FreshOutput
    /\ chunkIdx' = 1
    /\ pc' = "for_chunk"
    /\ reached' = [reached EXCEPT ![lovd] = "processing"]
    /\ evidenced' = {}
    /\ received' = {}
    /\ UNCHANGED <<now, universe, hgncs, requestTime, lovd, files, sortedGenes, geneIdx,
                   inFlight, response, respIdx, gene, calls, completedAt, preexisting,
                   merged, results, chunkSize, exception, digested, written, run,
                   leftBy>>

\* line 99: no sample is left, the function returns
Finish ==
    /\ pc = "for_lovd"
    /\ lovd > NumSamples
    /\ pc' = "done"
    /\ UNCHANGED <<now, universe, hgncs, requestTime, lovd, chunkIdx, lovdAmelieOutput,
                   files, sortedGenes, geneIdx, inFlight, response, calls, completedAt,
                   preexisting, reached, merged, results, respIdx, gene, chunkSize,
                   exception, evidenced,
                   digested, received, written, run, leftBy>>

\* with a fault: the writer is called one chunk early
AllChunksConsumed_Early == chunkIdx > Len(hgncs) - 1

\* line 114: the loop over the chunks has ended
AllChunksConsumed == chunkIdx > Len(hgncs)

\* line 118: the second argument of waitTillElapsed
Elapsed == now - requestTime

\* lines 114-118: the rate limiter gate before the call of a chunk
Wait ==
    /\ pc = "for_chunk"
    /\ ~AllChunksConsumed
    /\ now' = now + waitTillElapsed(MinInterval, Elapsed)
    /\ pc' = "post"
    /\ UNCHANGED <<universe, hgncs, requestTime, lovd, chunkIdx, lovdAmelieOutput, files,
                   sortedGenes, geneIdx, inFlight, response, calls, completedAt,
                   preexisting, reached, merged, results, respIdx, gene, chunkSize,
                   exception, evidenced,
                   digested, received, written, run, leftBy>>

\* with a fault: every request carries the phenotypes of the first sample
RequestData_FirstSample == [genes |-> hgncs[chunkIdx], phenotypes |-> Phenotypes(1)]

\* line 124: the data of the request
RequestData == [genes |-> hgncs[chunkIdx], phenotypes |-> Phenotypes(lovd)]

\* lines 123-124: the request is sent
Post ==
    /\ pc = "post"
    /\ calls' = Append(calls, [sample |-> lovd, chunk |-> chunkIdx,
                               data |-> RequestData, done |-> FALSE])
    /\ inFlight' = inFlight + 1
    /\ pc' = "in_flight"
    /\ UNCHANGED <<now, universe, hgncs, requestTime, lovd, chunkIdx, lovdAmelieOutput,
                   files, sortedGenes, geneIdx, response, completedAt, preexisting,
                   reached, merged, results, respIdx, gene, chunkSize, exception,
                   evidenced,
                   digested, received, written, run, leftBy>>

\* lines 123-124: post returns a response with some status
PostReturns ==
    /\ pc = "in_flight"
    /\ \E status \in Statuses : response' = status
    /\ pc' = "raise_for_status"
    /\ inFlight' = inFlight - 1
    /\ completedAt' = now
    /\ calls' = [calls EXCEPT ![Len(calls)].done = TRUE]
    /\ UNCHANGED <<now, universe, hgncs, requestTime, lovd, chunkIdx, lovdAmelieOutput,
                   files, sortedGenes, geneIdx, preexisting, reached, merged, results,
                   respIdx, gene, chunkSize, exception, evidenced,
                   digested, received, written, run, leftBy>>

\* lines 123-124: post raises an exception
PostFails ==
    /\ pc = "in_flight"
    /\ \E failure \in Failures : exception' = failure
    /\ pc' = "except"
    /\ inFlight' = inFlight - 1
    /\ completedAt' = now
    /\ calls' = [calls EXCEPT ![Len(calls)].done = TRUE]
    /\ UNCHANGED <<now, universe, hgncs, requestTime, lovd, chunkIdx, lovdAmelieOutput,
                   files, sortedGenes, geneIdx, response, respIdx, gene, preexisting,
                   reached, merged, results, chunkSize, evidenced,
                   digested, received, written, run, leftBy>>

\* with a fault: only a 5xx status raises
RaisesHTTPError_Only5xx(status) == 500 <= status /\ status < 600

\* response.raise_for_status(), line 125: HTTPError for a 4xx or 5xx status
RaisesHTTPError(status) == 400 <= status /\ status < 600

\* with a fault: the time of the request is not stored
StoredRequestTime_Stale == requestTime

\* line 130: the value stored in requestTime
StoredRequestTime == now

\* lines 125-130: the status check raises HTTPError, else the time is stored
RaiseForStatus ==
    /\ pc = "raise_for_status"
    /\ IF RaisesHTTPError(response)
       THEN pc' = "except" /\ exception' = "HTTPError" /\ UNCHANGED requestTime
       ELSE pc' = "digest" /\ requestTime' = StoredRequestTime /\ UNCHANGED exception
    /\ UNCHANGED <<now, universe, hgncs, lovd, chunkIdx, lovdAmelieOutput, files,
                   sortedGenes, geneIdx, inFlight, response, respIdx, gene, calls,
                   completedAt, preexisting, reached, merged, results, chunkSize,
                   evidenced,
                   digested, received, written, run, leftBy>>

\* with a fault: the except clause misses ReadTimeout
Caught_NoTimeout(e) == e \in {"ConnectionError", "HTTPError"}

\* line 126: the exceptions the except clause catches
Caught(e) == e \in {"ConnectionError", "HTTPError", "ReadTimeout"}

\* with a fault: the chunk is requested again after a caught exception
AfterCaught_Retry == "for_chunk"

\* line 127: exit(e) ends the process
AfterCaught == "aborted"

\* lines 126-127: exit(e) for a caught exception; any other ends the job uncaught
HandleException ==
    /\ pc = "except"
    /\ pc' = IF Caught(exception) THEN AfterCaught ELSE "crashed"
    /\ UNCHANGED <<now, universe, hgncs, requestTime, lovd, chunkIdx, lovdAmelieOutput,
                   files, sortedGenes, geneIdx, inFlight, response, respIdx, gene, calls,
                   completedAt, preexisting, reached, merged, results, chunkSize,
                   exception, evidenced,
                   digested, received, written, run, leftBy>>

\* lines 133-134: the next entry of response.json()
NextGene ==
    /\ pc = "digest"
    /\ respIdx < MaxRespLen
    /\ \E entry \in Entries :
          /\ gene' = entry
          /\ evidenced' = IF entry[2] # <<>> THEN evidenced \cup {entry[1]} ELSE evidenced
          /\ received' = IF entry[2] # <<>> THEN received \cup {entry} ELSE received
    /\ respIdx' = respIdx + 1
    /\ digested' = NoDigest
    /\ pc' = "store_gene"
    /\ UNCHANGED <<now, universe, hgncs, requestTime, lovd, chunkIdx, lovdAmelieOutput,
                   files, sortedGenes, geneIdx, inFlight, response, calls, completedAt,
                   preexisting, reached, merged, results, chunkSize, exception,
                   written, run, leftBy>>

\* lines 135-145: the entry is digested into the dict, unless float() raises
StoreGene ==
    /\ pc = "store_gene"
    /\ IF RaisesValueError(gene[2])
       THEN /\ exception' = "ValueError"
            /\ pc' = AfterValueError
            /\ UNCHANGED <<lovdAmelieOutput, digested, gene>>
       ELSE /\ lovdAmelieOutput' = DigestGene(lovdAmelieOutput, gene)
            /\ digested' = [entry |-> gene, before |-> lovdAmelieOutput]
            /\ gene' = NoGene
            /\ pc' = "digest"
            /\ UNCHANGED exception
    /\ UNCHANGED <<now, universe, hgncs, requestTime, lovd, chunkIdx, files, sortedGenes,
                   geneIdx, inFlight, response, respIdx, calls, completedAt, preexisting,
                   reached, merged, results, chunkSize, evidenced, received, written,
                   run, leftBy>>

\* with a fault: the loop steps over a chunk
NextChunkIdx_Skip == chunkIdx + 2

\* line 114: the index of the next chunk
NextChunkIdx == chunkIdx + 1

\* line 133: response.json() is exhausted, then the next chunk of line 114
EndResponse ==
    /\ pc = "digest"
    /\ merged' = [merged EXCEPT ![lovd] = @ + 1]
    /\ chunkIdx' = NextChunkIdx
    /\ respIdx' = 0
    /\ digested' = NoDigest
    /\ pc' = "for_chunk"
    /\ UNCHANGED <<now, universe, hgncs, requestTime, lovd, lovdAmelieOutput, files,
                   sortedGenes, geneIdx, inFlight, response, gene, calls, completedAt,
                   preexisting, reached, results, chunkSize, exception, evidenced,
                   received, written, run, leftBy>>

\* lines 148, 170: all chunks are consumed, the writer opens (creates) the file
OpenFile ==
    /\ pc = "for_chunk"
    /\ AllChunksConsumed
    /\ files' = [files EXCEPT ![lovd] = File(<<>>)]
    /\ results' = [results EXCEPT ![lovd] = lovdAmelieOutput]
    /\ reached' = [reached EXCEPT ![lovd] = "writing"]
    /\ written' = [written EXCEPT ![lovd] = @ + 1]
    /\ pc' = "write_header"
    /\ UNCHANGED <<now, universe, hgncs, requestTime, lovd, chunkIdx, lovdAmelieOutput,
                   sortedGenes, geneIdx, inFlight, response, calls, completedAt,
                   preexisting, merged, respIdx, gene, chunkSize, exception, evidenced,
                   digested, received, run, leftBy>>

\* lines 173-176: the header, then the genes are sorted
WriteHeader ==
    /\ pc = "write_header"
    /\ files' = [files EXCEPT ![lovd].lines = Append(@, HeaderLine)]
    /\ sortedGenes' = retrieveSortedAmelieList(lovdAmelieOutput)
    /\ geneIdx' = 1
    /\ pc' = "write_genes"
    /\ UNCHANGED <<now, universe, hgncs, requestTime, lovd, chunkIdx, lovdAmelieOutput,
                   inFlight, response, calls, completedAt, preexisting, reached, merged,
                   results, respIdx, gene, chunkSize, exception, evidenced,
                   digested, received, written, run, leftBy>>

\* with a fault: the loop over the sorted genes stops one gene early
MoreGenes_OffByOne == geneIdx < Len(sortedGenes)

\* line 176: the loop over the sorted genes has a next gene
MoreGenes == geneIdx <= Len(sortedGenes)

\* lines 176-182: the line of one gene
WriteGene ==
    /\ pc = "write_genes"
    /\ MoreGenes
    /\ files' = [files EXCEPT ![lovd].lines =
                    Append(@, GeneLine(lovdAmelieOutput, sortedGenes[geneIdx]))]
    /\ geneIdx' = geneIdx + 1
    /\ UNCHANGED <<pc, now, universe, hgncs, requestTime, lovd, chunkIdx,
                   lovdAmelieOutput, sortedGenes, inFlight, response, calls, completedAt,
                   preexisting, reached, merged, results, respIdx, gene, chunkSize,
                   exception, evidenced,
                   digested, received, written, run, leftBy>>

\* lines 185-186, then the next sample of line 99
CloseFile ==
    /\ pc = "write_genes"
    /\ ~MoreGenes
    /\ lovd' = lovd + 1
    /\ reached' = [reached EXCEPT ![lovd] = "finalized"]
    /\ pc' = "for_lovd"
    /\ UNCHANGED <<now, universe, hgncs, requestTime, chunkIdx, lovdAmelieOutput, files,
                   sortedGenes, geneIdx, inFlight, response, calls, completedAt,
                   preexisting, merged, results, respIdx, gene, chunkSize, exception,
                   evidenced,
                   digested, received, written, run, leftBy>>

\* the process is stopped from outside while the writer runs
Interrupt ==
    /\ pc \in WriterPcs
    /\ pc' = "killed"
    /\ UNCHANGED <<now, universe, hgncs, requestTime, lovd, chunkIdx, lovdAmelieOutput,
                   files, sortedGenes, geneIdx, inFlight, response, calls, completedAt,
                   preexisting, reached, merged, results, respIdx, gene, chunkSize,
                   exception, evidenced,
                   digested, received, written, run, leftBy>>

\* the lead of the clock over the fastest schedule: the first call as early as
\* the seed of line 96 lets it pass the rate limiter, then one every MinInterval
Lead ==
    now - (MinInterval \div 2)
        - MinInterval * (IF Len(calls) = 0 THEN 0 ELSE Len(calls) - 1)

\* the clock advances: while a call is in flight, and between two chunks
Tick ==
    /\ \/ pc = "in_flight"
       \/ pc = "for_chunk" /\ ~AllChunksConsumed
    /\ Lead < MaxTicks
    /\ now' = now + 1
    /\ UNCHANGED <<pc, universe, hgncs, requestTime, lovd, chunkIdx, lovdAmelieOutput,
                   files, sortedGenes, geneIdx, inFlight, response, respIdx, gene, calls,
                   completedAt, preexisting, reached, merged, results, chunkSize,
                   exception, evidenced,
                   digested, received, written, run, leftBy>>

Next ==
    \/ Begin
    \/ SkipLovd
    \/ StartLovd
    \/ Finish
    \/ Wait
    \/ Post
    \/ PostReturns
    \/ PostFails
    \/ RaiseForStatus
    \/ HandleException
    \/ NextGene
    \/ StoreGene
    \/ EndResponse
    \/ OpenFile
    \/ WriteHeader
    \/ WriteGene
    \/ CloseFile
    \/ Interrupt
    \/ Tick

Spec == Init /\ [][Next]_vars

----------------------------------------------------------------------------
(* The job left to itself: the steps of the program, each of which is taken
   once it can be; the sleep of line 118 is the step Wait, and the timeouts of
   line 123 make post return or raise *)

NextJob ==
    \/ Begin
    \/ SkipLovd
    \/ StartLovd
    \/ Finish
    \/ Wait
    \/ Post
    \/ PostReturns
    \/ PostFails
    \/ RaiseForStatus
    \/ HandleException
    \/ NextGene
    \/ StoreGene
    \/ EndResponse
    \/ OpenFile
    \/ WriteHeader
    \/ WriteGene
    \/ CloseFile

SpecLive == Init /\ [][NextJob]_vars /\ WF_vars(NextJob)

----------------------------------------------------------------------------
(* Runs of the job, one after the other, on the same output directory *)

\* the process has ended
Ended == pc \in {"done", "aborted", "crashed", "killed"}

\* lines 189-190, 41: the program is started again with the same arguments;
\* it finds the output directory as the run before left it
Restart ==
    /\ Ended
    /\ run < MaxRuns
    /\ run' = run + 1
    /\ leftBy' = [s \in Samples |->
                    IF files[s] # preexisting[s] THEN files[s] ELSE leftBy[s]]
    /\ preexisting' = files
    /\ pc' = "start"
    /\ hgncs' = <<>>
    /\ requestTime' = 0
    /\ lovd' = 1
    /\ chunkIdx' = 1
    /\ lovdAmelieOutput' = EmptyDict
    /\ sortedGenes' = <<>>
    /\ geneIdx' = 1
    /\ inFlight' = 0
    /\ response' = NoResponse
    /\ exception' = NoException
    /\ evidenced' = {}
    /\ respIdx' = 0
    /\ gene' = NoGene
    /\ calls' = <<>>
    /\ completedAt' = 0
    /\ reached' = [s \in Samples |-> "no"]
    /\ merged' = [s \in Samples |-> 0]
    /\ results' = [s \in Samples |-> EmptyDict]
    /\ digested' = NoDigest
    /\ received' = {}
    /\ written' = [s \in Samples |-> 0]
    /\ UNCHANGED <<now, universe, files, chunkSize>>

\* the first run starts half a second after the epoch on a directory that has
\* no file or an empty file for each sample
InitResume ==
    /\ Init
    /\ now = 1
    /\ universe = GeneList
    /\ \A s \in Samples : preexisting[s].lines = <<>>

NextResume ==
    \/ Begin
    \/ SkipLovd
    \/ StartLovd
    \/ Finish
    \/ Wait
    \/ Post
    \/ PostReturns
    \/ PostFails
    \/ RaiseForStatus
    \/ HandleException
    \/ NextGene
    \/ StoreGene
    \/ EndResponse
    \/ OpenFile
    \/ WriteHeader
    \/ WriteGene
    \/ CloseFile
    \/ Interrupt
    \/ Restart

SpecResume == InitResume /\ [][NextResume]_vars

----------------------------------------------------------------------------
(* The chunking of line 93 alone, for every gene universe and chunk size *)

\* the sequences without repetition over a set: list(hgncs) of a set hgncs
RECURSIVE ListsOf(_)
ListsOf(S) ==
    {<<>>} \cup UNION {{<<x>> \o q : q \in ListsOf(S \ {x})} : x \in S}

ChunkGenes == Genes \cup {"KRAS"}

InitChunk ==
    /\ pc = "start"
    /\ now = 0
    /\ universe \in ListsOf(ChunkGenes)
    /\ chunkSize \in 1..MaxChunkSize
    /\ hgncs = <<>>
    /\ requestTime = 0
    /\ lovd = 1
    /\ chunkIdx = 1
    /\ lovdAmelieOutput = EmptyDict
    /\ preexisting = [s \in Samples |-> NoFile]
    /\ files = preexisting
    /\ sortedGenes = <<>>
    /\ geneIdx = 1
    /\ inFlight = 0
    /\ response = NoResponse
    /\ exception = NoException
    /\ evidenced = {}
    /\ respIdx = 0
    /\ gene = NoGene
    /\ calls = <<>>
    /\ completedAt = 0
    /\ reached = [s \in Samples |-> "no"]
    /\ merged = [s \in Samples |-> 0]
    /\ results = [s \in Samples |-> EmptyDict]
    /\ digested = NoDigest
    /\ received = {}
    /\ written = [s \in Samples |-> 0]
    /\ run = 1
    /\ leftBy = [s \in Samples |-> NoFile]

NextChunk == Begin

SpecChunk == InitChunk /\ [][NextChunk]_vars

----------------------------------------------------------------------------
(* The writer of line 148 alone, for every dict a sample can end with *)

\* the lists line 145 can store
StoredLists == {GenePubmedScores(e) : e \in EvLists \ {<<>>}}

\* the dicts over the genes of the universe, in every insertion order
Dicts ==
    UNION {{[keys |-> k, val |-> v] : v \in [Range(k) -> StoredLists]} :
             k \in ListsOf(Genes)}

\* all chunks of the first sample have been merged
InitWrite ==
    /\ pc = "for_chunk"
    /\ now = 2 * MinInterval
    /\ universe = GeneList
    /\ chunkSize = ChunkSize
    /\ hgncs = GeneChunks(universe, chunkSize)
    /\ requestTime = now
    /\ lovd = 1
    /\ chunkIdx = Len(hgncs) + 1
    /\ lovdAmelieOutput \in Dicts
    /\ preexisting = [s \in Samples |-> NoFile]
    /\ files = preexisting
    /\ sortedGenes = <<>>
    /\ geneIdx = 1
    /\ inFlight = 0
    /\ response = 200
    /\ exception = NoException
    /\ evidenced = Range(lovdAmelieOutput.keys)
    /\ received = {e \in Genes \X (EvLists \ {<<>>}) :
                       /\ e[1] \in DOMAIN lovdAmelieOutput.val
                       /\ GenePubmedScores(e[2]) = lovdAmelieOutput.val[e[1]]}
    /\ respIdx = 0
    /\ gene = NoGene
    /\ calls = [i \in 1..Len(hgncs) |->
                  [sample |-> 1, chunk |-> i,
                   data |-> [genes |-> hgncs[i], phenotypes |-> Phenotypes(1)],
                   done |-> TRUE]]
    /\ completedAt = now
    /\ reached = [s \in Samples |-> IF s = 1 THEN "processing" ELSE "no"]
    /\ merged = [s \in Samples |-> IF s = 1 THEN Len(hgncs) ELSE 0]
    /\ results = [s \in Samples |-> EmptyDict]
    /\ digested = NoDigest
    /\ written = [s \in Samples |-> 0]
    /\ run = 1
    /\ leftBy = [s \in Samples |-> NoFile]

NextWrite ==
    \/ OpenFile
    \/ WriteHeader
    \/ WriteGene
    \/ CloseFile
    \/ Interrupt

SpecWrite == InitWrite /\ [][NextWrite]_vars

----------------------------------------------------------------------------
(* Claims *)

\* the chunks requested for sample s
ChunksRequested(s) == {calls[i].chunk : i \in {j \in 1..Len(calls) : calls[j].sample = s}}

\* the job has stopped on an exception
Stopped == pc \in {"except", "aborted", "crashed"}

(* C1: a sample whose output file exists when the orchestrator reaches it is
   skipped and gets no remote call; every other sample of a run that ends
   normally has all its chunks requested and its file written, wherever the
   skipped samples are in the sample order. *)
C1_ResumeSkip ==
    \A s \in Samples :
       /\ (preexisting[s].exists /\ reached[s] # "no") => reached[s] = "skipped"
       /\ preexisting[s].exists => ChunksRequested(s) = {} /\ files[s] = preexisting[s]
       /\ reached[s] = "skipped" => preexisting[s].exists
       /\ (pc = "done" /\ ~preexisting[s].exists) =>
             /\ reached[s] = "finalized"
             /\ ChunksRequested(s) = 1..Len(hgncs)
             /\ merged[s] = Len(hgncs)
             /\ files[s] = File(FileOf(results[s]))

\* the first sample was skipped and the second one processed, in two calls
C1_Witness ==
    /\ pc = "done"
    /\ reached[1] = "skipped"
    /\ reached[2] = "finalized"
    /\ Len(hgncs) = 2
    /\ Len(calls) = 2

\* the remote call failed with ConnectionError, ReadTimeout or HTTPError
C2_Failed ==
    \/ exception \in {"ConnectionError", "ReadTimeout"}
    \/ response # NoResponse /\ response >= 400 /\ response < 600
                             /\ pc # "raise_for_status"

(* C2: when the remote call of a chunk fails with ConnectionError, ReadTimeout
   or HTTPError, the failure is caught and the job stops there: the failed
   call is the last call, no file exists for the sample in progress, and no
   later sample is processed or skipped. *)
C2_AbortSemantics ==
    C2_Failed =>
       /\ pc \in {"except", "aborted"}
       /\ pc = "aborted" => ~ENABLED Next
       /\ inFlight = 0
       /\ calls[Len(calls)].sample = lovd
       /\ calls[Len(calls)].chunk = chunkIdx
       /\ merged[lovd] = chunkIdx - 1
       /\ ~files[lovd].exists
       /\ \A s \in Samples : s > lovd => reached[s] = "no" /\ files[s] = preexisting[s]

\* chunk 2 of sample 1 failed with an HTTP error status
C2_Witness ==
    /\ pc = "aborted"
    /\ exception = "HTTPError"
    /\ lovd = 1
    /\ chunkIdx = 2
    /\ merged[1] = 1
    /\ Len(calls) = 2

(* C3: when the job has ended, normally or on a failed remote call, every
   output file this run created holds the written form of the dict that was
   merged from all chunks of its sample, and a sample with fewer merged chunks
   than there are chunks has no file created by this run. *)
C3_AllOrNothing ==
    (pc = "done" \/ Stopped) =>
       \A s \in Samples :
          /\ files[s] # preexisting[s] =>
                /\ merged[s] = Len(hgncs)
                /\ ChunksRequested(s) = 1..Len(hgncs)
                /\ files[s] = File(FileOf(results[s]))
          /\ merged[s] < Len(hgncs) => files[s] = preexisting[s]

\* sample 1 was written in full, sample 2 was aborted after its first chunk
C3_Witness ==
    /\ pc = "aborted"
    /\ reached[1] = "finalized"
    /\ files[1].exists
    /\ Len(files[1].lines) = 3
    /\ reached[2] = "processing"
    /\ merged[2] = 1
    /\ ~files[2].exists

(* C4: every remote call but the first of a job is issued no earlier than
   MinInterval (1 second) after the call before it completed, also when the
   two calls belong to different samples. *)
C4_MinInterval ==
    [][(pc = "post" /\ pc' = "in_flight" /\ Len(calls) > 0)
          => now' >= completedAt + MinInterval]_vars

\* the first call of sample 2 is in flight, issued exactly MinInterval after
\* the last call of sample 1 completed
C4_Witness ==
    /\ pc = "in_flight"
    /\ lovd = 2
    /\ chunkIdx = 1
    /\ Len(calls) = 3
    /\ calls[2].sample = 1
    /\ now = completedAt + MinInterval

(* C5: the remote calls are issued in sample order and, within a sample, in
   chunk order 1..N; a call is issued only when every call before it has
   completed, a sample's first call only after the last chunk of the sample
   called before it, and at most one call is in flight. *)
C5_RequestOrdering ==
    /\ inFlight \in {0, 1}
    /\ inFlight = Cardinality({i \in 1..Len(calls) : ~calls[i].done})
    /\ \A i \in 1..Len(calls) :
          /\ i < Len(calls) => calls[i].done
          /\ i = 1 => calls[i].chunk = 1
          /\ i > 1 =>
                \/ /\ calls[i].sample = calls[i - 1].sample
                   /\ calls[i].chunk = calls[i - 1].chunk + 1
                \/ /\ calls[i].sample > calls[i - 1].sample
                   /\ calls[i].chunk = 1
                   /\ calls[i - 1].chunk = Len(hgncs)

\* the last chunk of the second sample is in flight after three completed calls
C5_Witness ==
    /\ pc = "in_flight"
    /\ inFlight = 1
    /\ Len(calls) = 4
    /\ calls[4].sample = 2
    /\ calls[4].chunk = 2

\* the concatenation of the chunks
RECURSIVE Flatten(_)
Flatten(chunks) == IF chunks = <<>> THEN <<>> ELSE Head(chunks) \o Flatten(Tail(chunks))

(* C6: for every gene universe and every chunk size S > 0 the chunks handed to
   the request loop hold, together, every gene of the universe exactly once;
   no chunk is longer than S, only the last one may be shorter, and there are
   ceil(|U| / S) chunks, none for an empty universe. *)
C6_ChunkCoverage ==
    pc # "start" =>
       /\ Range(Flatten(hgncs)) = Range(universe)
       /\ Len(Flatten(hgncs)) = Cardinality(Range(universe))
       /\ \A i \in 1..Len(hgncs) :
             /\ Len(hgncs[i]) <= chunkSize
             /\ i < Len(hgncs) => Len(hgncs[i]) = chunkSize
       /\ Len(hgncs) = (Len(universe) + chunkSize - 1) \div chunkSize

\* three genes in chunks of two: a full chunk and a last chunk of one
C6_Witness ==
    /\ pc # "start"
    /\ Len(universe) = 3
    /\ chunkSize = 2
    /\ Len(hgncs) = 2
    /\ Len(hgncs[1]) = 2
    /\ Len(hgncs[2]) = 1

(* C7: every gene that is a key of the per-sample dict has a non-empty list,
   and a gene is a key only if a response of the sample came with a non-empty
   list for it. *)
C7_NonEmpty ==
    /\ \A k \in DOMAIN lovdAmelieOutput.val : Len(lovdAmelieOutput.val[k]) > 0
    /\ DOMAIN lovdAmelieOutput.val \subseteq evidenced
    /\ Range(lovdAmelieOutput.keys) = DOMAIN lovdAmelieOutput.val

\* both entries of the first response had an empty list: nothing was stored
C7_Witness ==
    /\ pc = "digest"
    /\ chunkIdx = 1
    /\ respIdx = 2
    /\ evidenced = {}
    /\ lovdAmelieOutput = EmptyDict

\* q is a prefix of r
IsPrefix(q, r) == Len(q) <= Len(r) /\ SubSeq(r, 1, Len(q)) = q

(* C8 as stated: at every point of a job a file this run created is fully
   written, also while writeLovdResultsToFile runs or is stopped. *)
C8_Original ==
    \A s \in Samples :
       files[s] # preexisting[s] => files[s] = File(FileOf(results[s]))

(* C8, amended: outside writeLovdResultsToFile a file this run created is
   fully written; while the writer runs, and after the process was stopped in
   it, the file of the sample exists and holds a prefix of its content. *)
C8_Amended ==
    /\ pc \notin WriterPcs \cup {"killed"} =>
          \A s \in Samples :
             files[s] # preexisting[s] => files[s] = File(FileOf(results[s]))
    /\ pc \in WriterPcs \cup {"killed"} =>
          /\ files[lovd].exists
          /\ IsPrefix(files[lovd].lines, FileOf(results[lovd]))
          /\ \A s \in Samples :
                (s # lovd /\ files[s] # preexisting[s])
                   => files[s] = File(FileOf(results[s]))

\* the resume check of sample 2 sees the complete file of sample 1
C8_Witness ==
    /\ pc = "for_lovd"
    /\ lovd = 2
    /\ reached[1] = "finalized"
    /\ Len(files[1].lines) = 3
    /\ files[1] = File(FileOf(results[1]))

\* the score of the first entry of the gene on line i of the file of sample s
FirstScore(s, i) == results[s].val[files[s].lines[i][1]][1][2]

(* C9: the gene lines of a written file are in non-increasing order of the
   score of the first entry of each gene, and every gene key of the sample's
   dict is on exactly one line. *)
C9_SortOrder ==
    \A s \in Samples :
       reached[s] = "finalized" =>
          LET L == files[s].lines
          IN  /\ Len(L) = 1 + Cardinality(DOMAIN results[s].val)
              /\ {L[i][1] : i \in 2..Len(L)} = DOMAIN results[s].val
              /\ \A i \in 2..(Len(L) - 1) : FirstScore(s, i) >= FirstScore(s, i + 1)

\* BRCA1 and EGFR, first score 7.0, are written before TP53, first score 5.0,
\* whose highest score 9.5 is the highest of all
C9_Witness ==
    /\ reached[1] = "finalized"
    /\ Len(files[1].lines) = 4
    /\ {files[1].lines[2][1], files[1].lines[3][1]} = {"BRCA1", "EGFR"}
    /\ files[1].lines[4][1] = "TP53"
    /\ FirstScore(1, 2) = 70
    /\ FirstScore(1, 3) = 70
    /\ FirstScore(1, 4) = 50
    /\ MaxScore(results[1].val["TP53"]) = 95

\* the job is stopped at the failed call of the current chunk, nothing of the
\* response merged, no file for the sample in progress
StoppedAtCall ==
    /\ Stopped
    /\ inFlight = 0
    /\ respIdx = 0
    /\ merged[lovd] = chunkIdx - 1
    /\ calls[Len(calls)].sample = lovd
    /\ calls[Len(calls)].chunk = chunkIdx
    /\ ~files[lovd].exists

\* the status of the response has been checked by line 125
StatusChecked == response # NoResponse /\ pc # "raise_for_status"

(* C10 as stated: every status outside 2xx and every transport failure is
   fatal: nothing of the response is merged, no further call, no file. *)
C10_Original ==
    (\/ StatusChecked /\ (response < 200 \/ response > 299)
     \/ exception \in Failures)
       => StoppedAtCall

(* C10, amended: every 4xx or 5xx status and every transport failure is fatal:
   nothing of the response is merged, no further call is issued and no file
   is written for the sample in progress. *)
C10_Amended ==
    (\/ StatusChecked /\ response >= 400 /\ response < 600
     \/ exception \in Failures)
       => StoppedAtCall

\* the first call of sample 2 was answered with status 500
C10_Witness ==
    /\ pc = "aborted"
    /\ response = 500
    /\ exception = "HTTPError"
    /\ lovd = 2
    /\ chunkIdx = 1
    /\ reached[1] = "finalized"

(* C11 as stated: before the first remote call of a job the elapsed time the
   rate limiter is given, the clock minus the seed of line 96, is at least
   MinInterval whatever the clock reads, so the first call is never delayed. *)
C11_FirstCallNeverBlocks ==
    (Len(calls) = 0 /\ pc = "for_chunk" /\ ~AllChunksConsumed)
       => /\ Elapsed >= MinInterval
          /\ waitTillElapsed(MinInterval, Elapsed) = 0

\* line 145 has just digested an entry with results for a gene that was a key
Restored ==
    /\ pc = "digest"
    /\ digested # NoDigest
    /\ digested.entry[2] # <<>>
    /\ digested.entry[1] \in DOMAIN digested.before.val

(* C12: when an entry with a non-empty list is digested for a gene that is a
   key of the dict already, from an earlier chunk or from an earlier entry of
   the same response, the gene's list becomes the later list, entry for
   entry, and not the earlier list followed by the later one; the keys and
   the lists of the other genes stay as they were. *)
C12_Overwrite ==
    Restored =>
       LET g == digested.entry[1]
           later == digested.entry[2]
           earlier == digested.before.val[g]
           stored == lovdAmelieOutput.val[g]
       IN  /\ Len(stored) = Len(later)
           /\ \A i \in 1..Len(later) :
                 stored[i] = <<later[i][2], ParseFloat(later[i][1])>>
           /\ stored # earlier \o stored
           /\ lovdAmelieOutput.keys = digested.before.keys
           /\ \A k \in DOMAIN digested.before.val :
                 k # g => lovdAmelieOutput.val[k] = digested.before.val[k]

\* chunk 1 gave BRCA1 a list of two entries, the first entry of the response
\* of chunk 2 replaced it by a list of one
C12_Witness ==
    /\ Restored
    /\ chunkIdx = 2
    /\ respIdx = 1
    /\ digested.entry = <<"BRCA1", EvidenceB>>
    /\ Len(digested.before.val["BRCA1"]) = 2
    /\ lovdAmelieOutput.val["BRCA1"] = << <<"pm1", 70>> >>

(* C13: when a score of a response cannot be parsed as a number, the job ends
   there with the uncaught ValueError: no step follows, the file of the sample
   in progress does not exist, the call of the current chunk stays the last
   call, and no later sample is processed or skipped. *)
C13_MalformedScore ==
    exception = "ValueError" =>
       /\ pc = "crashed"
       /\ ~ENABLED Next
       /\ inFlight = 0
       /\ ~files[lovd].exists
       /\ reached[lovd] = "processing"
       /\ written[lovd] = 0
       /\ merged[lovd] = chunkIdx - 1
       /\ calls[Len(calls)].sample = lovd
       /\ calls[Len(calls)].chunk = chunkIdx
       /\ \A s \in Samples : s > lovd => reached[s] = "no" /\ files[s] = preexisting[s]

\* the second entry of the response of chunk 1 of sample 1 had a score that is
\* no number: the job ended with chunk 2 and sample 2 outstanding
C13_Witness ==
    /\ pc = "crashed"
    /\ exception = "ValueError"
    /\ gene = <<"TP53", EvidenceBad>>
    /\ lovd = 1
    /\ chunkIdx = 1
    /\ respIdx = 2
    /\ Len(hgncs) = 2
    /\ Len(calls) = 1
    /\ reached[2] = "no"
    /\ files = preexisting

\* line L is the gene g, a tab, the entries of list v as <evidenceId>:<score>
\* in the order of v with commas between them, and a newline
IsGeneLine(L, g, v) ==
    /\ Len(L) = 4 * Len(v) + 2
    /\ L[1] = g
    /\ L[2] = "\t"
    /\ L[Len(L)] = "\n"
    /\ \A j \in 1..Len(v) :
          /\ L[4 * j - 1] = v[j][1]
          /\ L[4 * j] = ":"
          /\ L[4 * j + 1] = FormatFloat(v[j][2])
          /\ j < Len(v) => L[4 * j + 2] = ","

(* C14: the file written for a sample is the header line gene<TAB>scores
   followed by exactly one line for every gene key of the sample's dict, each
   line the gene, a tab and the gene's entries as <evidenceId>:<score> joined
   by commas in the stored order; a sample with an empty dict, also one of a
   job without chunks, gets a file of the header alone. *)
C14_FileLayout ==
    \A s \in Samples :
       reached[s] = "finalized" =>
          LET L == files[s].lines
              d == results[s]
          IN  /\ files[s].exists
              /\ Len(L) = 1 + Len(d.keys)
              /\ L[1] = <<"gene", "\t", "scores", "\n">>
              /\ \A k \in DOMAIN d.val :
                    Cardinality({i \in 2..Len(L) : L[i][1] = k}) = 1
              /\ \A i \in 2..Len(L) :
                    /\ L[i][1] \in DOMAIN d.val
                    /\ IsGeneLine(L[i], L[i][1], d.val[L[i][1]])
              /\ d = EmptyDict => L = << <<"gene", "\t", "scores", "\n">> >>

\* sample 1 got no results in two chunks and has a file of the header alone;
\* the file of sample 2 has a line of one entry and a line of two entries
C14_Witness ==
    /\ reached[1] = "finalized"
    /\ merged[1] = 2
    /\ files[1].lines = << <<"gene", "\t", "scores", "\n">> >>
    /\ reached[2] = "finalized"
    /\ Len(files[2].lines) = 3
    /\ files[2].lines[2] = <<"TP53", "\t", "pm1", ":", "7.0", "\n">>
    /\ files[2].lines[3] =
          <<"BRCA1", "\t", "pm2", ":", "5.0", ",", "pm3", ":", "9.5", "\n">>

\* the calls issued for sample s
CallsFor(s) == {i \in 1..Len(calls) : calls[i].sample = s}

(* C15: the writer is called at most once for a sample; when it is called,
   the sample was not skipped, exactly one call was issued and answered for
   each of the N chunks, carrying the genes of that chunk and the phenotypes
   of the sample, and all N responses were merged; a call for a later sample
   is issued only after the writer has finished for every earlier sample that
   was not skipped; and a run that ends without failure has called the writer
   for every sample that was not skipped. *)
C15_FinalizeOnce ==
    \A s \in Samples :
       /\ written[s] <= 1
       /\ written[s] = 1 =>
             /\ ~preexisting[s].exists
             /\ merged[s] = Len(hgncs)
             /\ Cardinality(CallsFor(s)) = Len(hgncs)
             /\ \A n \in 1..Len(hgncs) :
                   \E i \in CallsFor(s) :
                      /\ calls[i].chunk = n
                      /\ calls[i].data.genes = hgncs[n]
                      /\ calls[i].data.phenotypes = Phenotypes(s)
                      /\ calls[i].done
       /\ \A t \in Samples :
             (s < t /\ CallsFor(t) # {} /\ ~preexisting[s].exists)
                => written[s] = 1 /\ reached[s] = "finalized"
       /\ (pc = "done" /\ ~preexisting[s].exists) => written[s] = 1

\* both samples were processed in two chunks each and written once each
C15_Witness ==
    /\ pc = "done"
    /\ Len(hgncs) = 2
    /\ Len(calls) = 4
    /\ written[1] = 1
    /\ written[2] = 1
    /\ calls[3].data = [genes |-> <<"BRCA1", "TP53">>, phenotypes |-> <<"HP:0000003">>]
    /\ calls[4].data = [genes |-> <<"EGFR">>, phenotypes |-> <<"HP:0000003">>]

\* the sample the entries of received were answered for, once it has a file
Holder == IF pc \in WriterPcs \cup {"killed"} THEN lovd ELSE lovd - 1

(* C16: the dict is empty when the first chunk of a sample is requested, and
   every gene line of the file written for a sample is the line of an entry
   that a response to a call of that sample came with in this run; the file
   has no line for a gene only an earlier sample got results for. *)
C16_NoCrossSample ==
    /\ (pc \in {"post", "in_flight"} /\ chunkIdx = 1) =>
          /\ lovdAmelieOutput = EmptyDict
          /\ received = {}
    /\ (Holder \in Samples /\ files[Holder] # preexisting[Holder]
           /\ pc \in WriterPcs \cup {"killed", "for_lovd", "done"}) =>
          \A i \in 2..Len(files[Holder].lines) :
             \E e \in received :
                /\ ~RaisesValueError(e[2])
                /\ IsGeneLine(files[Holder].lines[i], e[1],
                              [j \in 1..Len(e[2]) |-> <<e[2][j][2], ParseFloat(e[2][j][1])>>])

\* the file of sample 1 has a line for TP53; sample 2 got results for BRCA1
\* only and its complete file has the line of BRCA1 alone
C16_Witness ==
    /\ pc = "write_genes"
    /\ lovd = 2
    /\ ~MoreGenes
    /\ reached[1] = "finalized"
    /\ \E i \in 2..Len(files[1].lines) : files[1].lines[i][1] = "TP53"
    /\ received = {<<"BRCA1", EvidenceB>>}
    /\ Len(files[2].lines) = 2
    /\ files[2].lines[2][1] = "BRCA1"

\* line 144 has just seen an entry without results
DigestedEmpty ==
    /\ pc = "digest"
    /\ digested # NoDigest
    /\ digested.entry[2] = <<>>

(* C17: digesting an entry whose list is empty leaves the dict as it was: the
   gene is neither added, removed nor emptied, a list it has from an earlier
   chunk is kept, and the keys and lists of all other genes are unchanged. *)
C17_EmptyKeeps ==
    DigestedEmpty =>
       LET g == digested.entry[1]
       IN  /\ lovdAmelieOutput.keys = digested.before.keys
           /\ DOMAIN lovdAmelieOutput.val = DOMAIN digested.before.val
           /\ \A k \in DOMAIN digested.before.val :
                 lovdAmelieOutput.val[k] = digested.before.val[k]
           /\ g \in DOMAIN digested.before.val =>
                 /\ g \in DOMAIN lovdAmelieOutput.val
                 /\ Len(lovdAmelieOutput.val[g]) > 0

\* chunk 1 gave BRCA1 two entries and TP53 one; the response of chunk 2 came
\* with BRCA1 without results, and both lists are still there
C17_Witness ==
    /\ DigestedEmpty
    /\ chunkIdx = 2
    /\ digested.entry = <<"BRCA1", NoEvidence>>
    /\ lovdAmelieOutput.keys = <<"BRCA1", "TP53">>
    /\ lovdAmelieOutput.val["BRCA1"] = << <<"pm2", 50>>, <<"pm3", 95>> >>
    /\ lovdAmelieOutput.val["TP53"] = << <<"pm1", 70>> >>

\* the sample the loop of line 99 has reached has an output file
AtExistingFile == pc = "for_lovd" /\ lovd <= NumSamples /\ files[lovd].exists

(* C18: the step taken for a sample whose file exists only advances to the
   next sample: the file, empty or partial as it may be, and every other file
   stay as they are, requestTime is unchanged and no call is issued; a
   skipped sample's file is as it was when the run started for the rest of
   the run. *)
C18_SkipFrame ==
    /\ [](\A s \in Samples :
             reached[s] = "skipped" => files[s] = preexisting[s] /\ CallsFor(s) = {})
    /\ [][AtExistingFile =>
             /\ files' = files
             /\ requestTime' = requestTime
             /\ now' = now
             /\ calls' = calls
             /\ lovdAmelieOutput' = lovdAmelieOutput
             /\ reached' = [reached EXCEPT ![lovd] = "skipped"]
             /\ lovd' = lovd + 1
             /\ pc' = "for_lovd"]_vars

\* sample 1 was processed, sample 2 was skipped over a file that ends within
\* the header: the file is as it was and requestTime is the time of the last
\* response
C18_Witness ==
    /\ pc = "for_lovd"
    /\ lovd = 3
    /\ reached[1] = "finalized"
    /\ reached[2] = "skipped"
    /\ files[2] = File(<< <<"gene", "\t">> >>)
    /\ Len(calls) = 2
    /\ requestTime = completedAt
    /\ requestTime > 0

(* C19: over a sequence of runs on the same samples and output directory, of
   which any may end on a failed call, a sample whose file an earlier run left
   is not requested by a later run and its file stays as that run left it; no
   step of any run removes a file; and a run that finds a file for every
   sample issues no call and writes nothing. *)
C19_Resume ==
    /\ [](\A s \in Samples :
             leftBy[s].exists =>
                /\ files[s] = leftBy[s]
                /\ CallsFor(s) = {}
                /\ written[s] = 0)
    /\ []((\A s \in Samples : preexisting[s].exists) =>
             /\ calls = <<>>
             /\ files = preexisting
             /\ \A s \in Samples : written[s] = 0)
    /\ [][\A s \in Samples : files[s].exists => files'[s].exists]_vars

\* the first run wrote the file of sample 1 and ended without a file for
\* sample 2; the second run skipped sample 1, issued the calls of sample 2 only
\* and wrote its file
C19_Witness ==
    /\ run = 2
    /\ pc = "done"
    /\ reached[1] = "skipped"
    /\ Len(leftBy[1].lines) = 2
    /\ files[1] = leftBy[1]
    /\ ~preexisting[2].exists
    /\ reached[2] = "finalized"
    /\ CallsFor(1) = {}
    /\ Len(calls) = Len(hgncs)
    /\ Len(files[2].lines) = 3

\* the job has stopped on a failure: exit(e) at line 127, or an exception that
\* nothing catches
Aborted == pc \in {"aborted", "crashed"}

(* C20: a job whose remote calls all return or raise and whose sleeps all end
   reaches an end and stays there: either the loop over the samples is done
   and every sample is finalized or skipped, or the job has stopped on a
   failure; and no chunk of a sample is requested twice in a run. *)
C20_Termination ==
    /\ <>[](pc = "done" \/ Aborted)
    /\ [](pc = "done" => \A s \in Samples : reached[s] \in {"finalized", "skipped"})
    /\ [](\A i, j \in 1..Len(calls) :
             (calls[i].sample = calls[j].sample /\ calls[i].chunk = calls[j].chunk)
                => i = j)

\* the job is done: sample 1 was skipped, sample 2 finalized after one call
\* for each of its two chunks
C20_Witness ==
    /\ pc = "done"
    /\ ~ENABLED NextJob
    /\ reached[1] = "skipped"
    /\ reached[2] = "finalized"
    /\ Len(calls) = 2
    /\ calls[1].chunk = 1
    /\ calls[2].chunk = 2

====
